---- MODULE Spec2Model ----
(***************************************************************************)
(* GymEnv (candle-examples/examples/reinforcement-learning/gym_env.rs):    *)
(* the wrapper around a Gymnasium environment living in the Python         *)
(* interpreter.  Threads call new / reset / step, each of which runs its   *)
(* Python part inside Python::with_gil and, for reset and step, builds the *)
(* tensor after the closure has returned; action_space and                 *)
(* observation_space read the fields cached by new.                        *)
(***************************************************************************)
EXTENDS Integers, Sequences, FiniteSets

\* ------------------------------------------------------------------ bounds
NumThreads == 2
MaxAdapters == 2
MaxOps == 3

Threads == 1..NumThreads
Slots == 1..MaxAdapters
NoThread == 0
NoSlot == 0

\* ------------------------------------------------------- Python values
\* A Python object as the extraction code sees it: its type and its payload.
\* Floats are integer-valued doubles; a sequence carries its elements.
PyMissing == [kind |-> "missing", v |-> 0, items |-> <<>>]
PyNone == [kind |-> "none", v |-> 0, items |-> <<>>]
PyInt(i) == [kind |-> "int", v |-> i, items |-> <<>>]
PyFloat(x) == [kind |-> "float", v |-> x, items |-> <<>>]
PyBool(b) == [kind |-> "bool", v |-> IF b THEN 1 ELSE 0, items |-> <<>>]
PyInts(s) == [kind |-> "ints", v |-> 0, items |-> s]
PyFloats(s) == [kind |-> "floats", v |-> 0, items |-> s]

\* Result<T, PyErr> of an extraction
Ok(x) == [ok |-> TRUE, val |-> x]
PyErr == [ok |-> FALSE, val |-> 0]

\* f32 has a 24-bit significand
F32MantissaBits == 24

RECURSIVE Pow2(_)
Pow2(k) == IF k = 0 THEN 1 ELSE 2 * Pow2(k - 1)

\* The unit in the last place of the f32 nearest a non-negative x.
RECURSIVE F32Ulp(_, _)
F32Ulp(x, u) == IF x < u * Pow2(F32MantissaBits) THEN u ELSE F32Ulp(x, 2 * u)

\* `as f32` of a non-negative integer-valued double: round to nearest, ties to even.
F32CastNonNeg(x) ==
    LET u == F32Ulp(x, 1)
        q == x \div u
        r == x % u
    IN  IF 2 * r < u THEN q * u
        ELSE IF 2 * r > u THEN (q + 1) * u
        ELSE IF q % 2 = 0 THEN q * u ELSE (q + 1) * u

\* f32::extract is `obj.extract::<f64>()? as f32`
F32Cast(x) == IF x >= 0 THEN F32CastNonNeg(x) ELSE 0 - F32CastNonNeg(0 - x)

\* each element of a Python sequence extracted as f32
VecF32(s) == [i \in 1..Len(s) |-> F32Cast(s[i])]

\* off-by-one extraction that loses the first element
ExtractVecF32DropFirst(p) ==
    IF p.kind \in {"floats", "ints"} /\ Len(p.items) > 0
    THEN Ok(VecF32(Tail(p.items))) ELSE PyErr

\* `.extract()` into Vec<f32>: any sequence of numbers, each element cast to f32
ExtractVecF32(p) ==
    IF p.kind \in {"floats", "ints"} THEN Ok(VecF32(p.items)) ELSE PyErr

\* `.extract()` into f64: a float, or an integer (bool included) by __float__
ExtractF64(p) == IF p.kind \in {"float", "int", "bool"} THEN Ok(p.v) ELSE PyErr

\* `.extract()` into bool: a Python bool and nothing else
ExtractBool(p) == IF p.kind = "bool" THEN Ok(p.v = 1) ELSE PyErr

\* `.extract()` into usize: a non-negative Python integer
ExtractUsize(p) == IF p.kind = "int" /\ p.v >= 0 THEN Ok(p.v) ELSE PyErr

\* `.extract()` into Vec<usize>: a sequence of non-negative integers
ExtractVecUsize(p) ==
    IF p.kind = "ints" /\ \A i \in 1..Len(p.items) : p.items[i] >= 0
    THEN Ok(p.items) ELSE PyErr

\* tuple.get_item(i), i counted from 0: IndexError past the end
GetItem(tup, i) == IF i + 1 <= Len(tup) THEN Ok(tup[i + 1]) ELSE PyErr

\* ------------------------------------------------- the Python side: inputs
\* What gymnasium.make(name) yields: whether the name is registered, and the
\* attributes of the environment's action_space and observation_space
\* (PyMissing: getattr raises AttributeError).
EnvNames ==
    {"discrete4", "shape6", "scalar_box", "bad_n", "no_shape", "no_obs_shape",
     "nonexistent"}

Registry(name) ==
    CASE name = "discrete4" ->
           [registered |-> TRUE, n |-> PyInt(4), ashape |-> PyInts(<<>>),
            oshape |-> PyInts(<<2>>)]
      [] name = "shape6" ->
           [registered |-> TRUE, n |-> PyMissing, ashape |-> PyInts(<<6>>),
            oshape |-> PyInts(<<1, 2>>)]
      [] name = "scalar_box" ->
           [registered |-> TRUE, n |-> PyMissing, ashape |-> PyInts(<<>>),
            oshape |-> PyInts(<<2>>)]
      [] name = "bad_n" ->
           [registered |-> TRUE, n |-> PyInt(-1), ashape |-> PyInts(<<3>>),
            oshape |-> PyInts(<<2>>)]
      [] name = "no_shape" ->
           [registered |-> TRUE, n |-> PyMissing, ashape |-> PyNone,
            oshape |-> PyInts(<<2>>)]
      [] name = "no_obs_shape" ->
           [registered |-> TRUE, n |-> PyInt(2), ashape |-> PyInts(<<>>),
            oshape |-> PyMissing]
      [] OTHER ->
           [registered |-> FALSE, n |-> PyMissing, ashape |-> PyMissing,
            oshape |-> PyMissing]

\* The names whose environments new() accepts; a live environment may come
\* to report the spaces of another of them.
GoodNames == {"discrete4", "shape6"}

\* Action values handed to step (A = a small integer) and seeds handed to reset.
Actions == {0, 1}
Seeds == {0, 42}

\* What env.step(action) may do: raise, or return some Python tuple.
Raised == [raised |-> TRUE, tup |-> <<>>]
Returned(tup) == [raised |-> FALSE, tup |-> tup]

StepReturns ==
    { Raised,
      Returned(<<PyFloats(<<1, 16777217>>), PyFloat(1), PyBool(TRUE)>>),
      Returned(<<PyFloats(<<1, 16777217>>), PyFloat(1), PyBool(TRUE),
                 PyBool(FALSE), PyNone>>),
      Returned(<<PyFloats(<<3>>), PyInt(2), PyBool(FALSE), PyBool(TRUE), PyNone>>),
      Returned(<<PyFloats(<<3>>), PyFloat(1)>>),
      Returned(<<PyNone, PyFloat(1), PyBool(TRUE)>>),
      Returned(<<PyFloats(<<3>>), PyNone, PyBool(TRUE)>>),
      Returned(<<PyFloats(<<3>>), PyFloat(1), PyInt(1)>>),
      Returned(<<>>) }

\* What env.reset(seed=seed) may do.
ResetReturns ==
    { Raised,
      Returned(<<PyFloats(<<1, 16777217>>), PyNone>>),
      Returned(<<PyFloats(<<3>>), PyFloats(<<5, 6>>)>>),
      Returned(<<PyNone, PyNone>>),
      Returned(<<>>) }

\* ----------------------------------------------------------------- state
VARIABLES
    gil,        \* the thread inside Python::with_gil, or NoThread
    adapters,   \* slot -> the GymEnv in it (used = FALSE: none yet)
    atNew,      \* slot -> the two space values new() computed (history)
    pc,         \* thread -> where it is in its current call
    call,       \* thread -> the call it is making or has last made
    ret,        \* thread -> what the Python method gave the current call
    result,     \* thread -> what the thread's last finished call returned
    nCalls,     \* thread -> Python reset/step invocations of the current call
    ops         \* calls begun so far

vars == <<gil, adapters, atNew, pc, call, ret, result, nCalls, ops>>

NoAdapter ==
    [used |-> FALSE, made |-> "", live |-> "", action_space |-> 0,
     observation_space |-> <<>>, hist |-> "none"]
NoSpaces == [action_space |-> 0, observation_space |-> <<>>]
NoCall == [op |-> "none", name |-> "", adapter |-> NoSlot, arg |-> 0]
NoRet == [raised |-> FALSE, tup |-> <<>>]
NoTensor == [dims |-> <<>>, data |-> <<>>]
NoResult ==
    [kind |-> "none", adapter |-> NoSlot, val |-> 0, shape |-> <<>>,
     obs |-> NoTensor, action |-> 0, reward |-> 0, is_done |-> FALSE]

\* candle::Error::wrap(PyErr)
w(res) == [NoResult EXCEPT !.kind = "ExternalCallError"]

\* Tensor::new(Vec<f32>, &Device::Cpu): a one-dimensional tensor of the data
TensorNew(vec) == [dims |-> <<Len(vec)>>, data |-> vec]

RECURSIVE Product(_)
Product(s) == IF s = <<>> THEN 1 ELSE Head(s) * Product(Tail(s))

ElemCount(tensor) == Product(tensor.dims)

Init ==
    /\ gil = NoThread
    /\ adapters = [s \in Slots |-> NoAdapter]
    /\ atNew = [s \in Slots |-> NoSpaces]
    /\ pc = [t \in Threads |-> "idle"]
    /\ call = [t \in Threads |-> NoCall]
    /\ ret = [t \in Threads |-> NoRet]
    /\ result = [t \in Threads |-> NoResult]
    /\ nCalls = [t \in Threads |-> 0]
    /\ ops = 0

\* ------------------------------------------------------- Python::with_gil
\* a lock that lets everyone in
CanAcquireUnlocked(t) == TRUE

\* with_gil blocks until no other thread holds the interpreter
CanAcquire(t) == gil = NoThread

\* a guard that is not dropped when the closure returns Err
GilLeakedOnErr(t, ok) == IF ok THEN NoThread ELSE t

\* the GIL guard is dropped when with_gil's closure ends, however it ends
GilAfterExit(t, ok) == NoThread

\* ------------------------------------------------------------ GymEnv::new
\* the number of dimensions taken for the first dimension
ActionSpaceNdim(d) ==
    IF d.n.kind # "missing"
    THEN LET val == ExtractUsize(d.n)
         IN  IF val.ok THEN [kind |-> "ok", val |-> val.val]
             ELSE [kind |-> "err", val |-> 0]
    ELSE LET shape == IF d.ashape.kind = "missing" THEN PyErr
                      ELSE ExtractVecUsize(d.ashape)
         IN  IF ~shape.ok THEN [kind |-> "err", val |-> 0]
             ELSE [kind |-> "ok", val |-> Len(shape.val)]

\* lines 46-52: `n` when getattr("n") succeeds, else shape[0]; indexing an
\* empty Vec panics
ActionSpaceOf(d) ==
    IF d.n.kind # "missing"
    THEN LET val == ExtractUsize(d.n)
         IN  IF val.ok THEN [kind |-> "ok", val |-> val.val]
             ELSE [kind |-> "err", val |-> 0]
    ELSE LET shape == IF d.ashape.kind = "missing" THEN PyErr
                      ELSE ExtractVecUsize(d.ashape)
         IN  IF ~shape.ok THEN [kind |-> "err", val |-> 0]
             ELSE IF Len(shape.val) = 0 THEN [kind |-> "panic", val |-> 0]
             ELSE [kind |-> "ok", val |-> shape.val[1]]

\* lines 53-54
ObservationSpaceOf(d) ==
    IF d.oshape.kind = "missing" THEN PyErr ELSE ExtractVecUsize(d.oshape)

\* The closure of new() after `make.call1((name,))` has produced env
NewClosure(d) ==
    LET a == ActionSpaceOf(d)
        o == ObservationSpaceOf(d)
    IN  IF a.kind # "ok"
        THEN [kind |-> a.kind, action_space |-> 0, observation_space |-> <<>>]
        ELSE IF ~o.ok
        THEN [kind |-> "err", action_space |-> 0, observation_space |-> <<>>]
        ELSE [kind |-> "ok", action_space |-> a.val, observation_space |-> o.val]

FreeSlots == {s \in Slots : ~adapters[s].used}
NextSlot == CHOOSE s \in FreeSlots : \A u \in FreeSlots : s <= u

Begin(t, c) ==
    /\ pc[t] = "idle"
    /\ ops < MaxOps
    /\ ops' = ops + 1
    /\ CanAcquire(t)
    /\ gil' = t
    /\ pc' = [pc EXCEPT ![t] = "gil"]
    /\ call' = [call EXCEPT ![t] = c]
    /\ result' = [result EXCEPT ![t] = NoResult]
    /\ UNCHANGED <<adapters, atNew, ret, nCalls>>

\* line 42: new(name) enters with_gil
NewAcquire(t, name) ==
    /\ FreeSlots # {}
    /\ Begin(t, [NoCall EXCEPT !.op = "new", !.name = name])

\* lines 43-45: import gymnasium, getattr make, make(name); any of them may raise
NewMake(t) ==
    /\ pc[t] = "gil"
    /\ call[t].op = "new"
    /\ \E exc \in BOOLEAN :
         ret' = [ret EXCEPT ![t] =
                   [NoRet EXCEPT !.raised = exc \/ ~Registry(call[t].name).registered]]
    /\ pc' = [pc EXCEPT ![t] = "called"]
    /\ UNCHANGED <<gil, adapters, atNew, call, result, nCalls, ops>>

\* lines 46-61: the spaces are extracted, the closure ends, the error is wrapped
NewExit(t) ==
    /\ pc[t] = "called"
    /\ call[t].op = "new"
    /\ LET r == IF ret[t].raised
                THEN [kind |-> "err", action_space |-> 0, observation_space |-> <<>>]
                ELSE NewClosure(Registry(call[t].name))
           s == NextSlot
       IN  /\ gil' = GilAfterExit(t, r.kind = "ok")
           /\ IF r.kind = "ok"
              THEN /\ adapters' = [adapters EXCEPT ![s] =
                         [used |-> TRUE, made |-> call[t].name, live |-> call[t].name,
                          action_space |-> r.action_space,
                          observation_space |-> r.observation_space,
                          hist |-> "none"]]
                   /\ atNew' = [atNew EXCEPT ![s] =
                         [action_space |-> r.action_space,
                          observation_space |-> r.observation_space]]
                   /\ result' = [result EXCEPT ![t] =
                         [NoResult EXCEPT !.kind = "adapter", !.adapter = s]]
                   /\ pc' = [pc EXCEPT ![t] = "idle"]
              ELSE /\ UNCHANGED <<adapters, atNew>>
                   /\ result' = [result EXCEPT ![t] =
                         IF r.kind = "err" THEN w(r)
                         ELSE [NoResult EXCEPT !.kind = "panic"]]
                   /\ pc' = [pc EXCEPT ![t] = IF r.kind = "err" THEN "idle" ELSE "panicked"]
    /\ call' = [call EXCEPT ![t] = NoCall]
    /\ ret' = [ret EXCEPT ![t] = NoRet]
    /\ UNCHANGED <<nCalls, ops>>

\* ------------------------------------------------ GymEnv::reset and ::step
\* The calls made on an adapter so far, as its environment has seen them.
HistAfter(op, res) ==
    IF res.kind = "ExternalCallError" THEN "failed"
    ELSE IF op = "reset" THEN "reset"
    ELSE IF res.is_done THEN "done" ELSE "stepped"

\* an adapter that refuses to step a finished or never-reset environment
CallMethodGuarded(h, op, out) ==
    IF op = "step" /\ h \in {"none", "done"}
    THEN [out |-> Raised, calls |-> 0]
    ELSE [out |-> out, calls |-> 1]

\* an adapter that calls the method once more when it raised
CallMethodRetried(h, op, out) ==
    IF out.raised THEN [out |-> out, calls |-> 2] ELSE [out |-> out, calls |-> 1]

\* lines 69 and 82: self.env.call_method(py, op, ...) is made whatever was
\* called before (h), once, and what it gives is what the closure goes on with
CallMethod(h, op, out) == [out |-> out, calls |-> 1]

\* lines 69-70: `?` on the call, then get_item(i)?.extract()
ResetClosureAt(r, i) ==
    IF r.raised THEN PyErr
    ELSE LET obs == GetItem(r.tup, i)
         IN  IF ~obs.ok THEN PyErr ELSE ExtractVecF32(obs.val)

ResetClosure(r) == ResetClosureAt(r, 0)

\* lines 82-87: `?` on the call, then the elements at i0, i1, i2 in that order
StepClosureAt(r, i0, i1, i2) ==
    IF r.raised THEN PyErr
    ELSE LET e0 == GetItem(r.tup, i0)
             obs == IF e0.ok THEN ExtractVecF32(e0.val) ELSE PyErr
             e1 == GetItem(r.tup, i1)
             reward == IF e1.ok THEN ExtractF64(e1.val) ELSE PyErr
             e2 == GetItem(r.tup, i2)
             is_done == IF e2.ok THEN ExtractBool(e2.val) ELSE PyErr
         IN  IF ~obs.ok THEN PyErr
             ELSE IF ~reward.ok THEN PyErr
             ELSE IF ~is_done.ok THEN PyErr
             ELSE Ok([obs |-> obs.val, reward |-> reward.val, is_done |-> is_done.val])

\* the truncation flag taken for the done flag
StepClosureTruncated(r) == StepClosureAt(r, 0, 1, 3)

StepClosure(r) == StepClosureAt(r, 0, 1, 2)

\* the value Python handed back
StepActionFromCopy(action, copy) == copy

\* lines 82, 95: Python gets action.clone(), the Step gets action
StepAction(action, copy) == action

\* line 66: reset(seed) enters with_gil
ResetAcquire(t, a, seed) ==
    /\ adapters[a].used
    /\ Begin(t, [NoCall EXCEPT !.op = "reset", !.adapter = a, !.arg = seed])

\* line 81: step(action) enters with_gil
StepAcquire(t, a, action) ==
    /\ adapters[a].used
    /\ Begin(t, [NoCall EXCEPT !.op = "step", !.adapter = a, !.arg = action])

\* The Python method runs: it raises or returns, may leave the environment
\* reporting other spaces, and (step) may change the object it was handed.
CallEnv(t, op, outs) ==
    /\ pc[t] = "gil"
    /\ call[t].op = op
    /\ \E out \in outs, live \in GoodNames :
         LET a == call[t].adapter
             m == CallMethod(adapters[a].hist, op, out)
         IN  /\ ret' = [ret EXCEPT ![t] = m.out]
             /\ nCalls' = [nCalls EXCEPT ![t] = @ + m.calls]
             /\ adapters' = [adapters EXCEPT ![a].live = live]
    /\ pc' = [pc EXCEPT ![t] = "called"]
    /\ UNCHANGED <<gil, atNew, call, result, ops>>

\* line 69
ResetCall(t) == CallEnv(t, "reset", ResetReturns)

\* line 82
StepCall(t) == CallEnv(t, "step", StepReturns)

Finish(t, ok, res) ==
    /\ gil' = GilAfterExit(t, ok)
    /\ result' = [result EXCEPT ![t] = res]
    /\ adapters' = [adapters EXCEPT ![call[t].adapter].hist = HistAfter(call[t].op, res)]
    /\ pc' = [pc EXCEPT ![t] = "idle"]
    /\ call' = [call EXCEPT ![t] = NoCall]
    /\ ret' = [ret EXCEPT ![t] = NoRet]
    /\ nCalls' = [nCalls EXCEPT ![t] = 0]
    /\ UNCHANGED <<atNew, ops>>

\* lines 70-73: the observation is extracted, the closure ends, an error is
\* wrapped and returned, else the tensor is built
ResetExit(t) ==
    /\ pc[t] = "called"
    /\ call[t].op = "reset"
    /\ LET r == ResetClosure(ret[t])
       IN  Finish(t, r.ok,
                  IF r.ok
                  THEN [NoResult EXCEPT !.kind = "tensor", !.obs = TensorNew(r.val)]
                  ELSE w(r))

\* lines 83-96
StepExit(t) ==
    /\ pc[t] = "called"
    /\ call[t].op = "step"
    /\ \E copy \in Actions :
         LET r == StepClosure(ret[t])
         IN  Finish(t, r.ok,
                    IF r.ok
                    THEN [NoResult EXCEPT !.kind = "step",
                                          !.obs = TensorNew(r.val.obs),
                                          !.reward = r.val.reward,
                                          !.is_done = r.val.is_done,
                                          !.action = StepAction(call[t].arg, copy)]
                    ELSE w(r))

\* ------------------------------------- action_space and observation_space
\* the space asked of the environment again
LiveActionSpace(a) == ActionSpaceOf(Registry(adapters[a].live)).val

\* line 101
CachedActionSpace(a) == adapters[a].action_space

\* line 106
CachedObservationSpace(a) == adapters[a].observation_space

Getter(t, a, res) ==
    /\ pc[t] = "idle"
    /\ adapters[a].used
    /\ ops < MaxOps
    /\ ops' = ops + 1
    /\ result' = [result EXCEPT ![t] = res]
    /\ UNCHANGED <<gil, adapters, atNew, pc, call, ret, nCalls>>

\* lines 100-102
ActionSpace(t, a) ==
    Getter(t, a, [NoResult EXCEPT !.kind = "usize", !.val = CachedActionSpace(a)])

\* lines 105-107
ObservationSpace(t, a) ==
    Getter(t, a, [NoResult EXCEPT !.kind = "shape",
                                  !.shape = CachedObservationSpace(a)])

Next ==
    \E t \in Threads :
       \/ \E name \in EnvNames : NewAcquire(t, name)
       \/ NewMake(t)
       \/ NewExit(t)
       \/ \E a \in Slots, seed \in Seeds : ResetAcquire(t, a, seed)
       \/ ResetCall(t)
       \/ ResetExit(t)
       \/ \E a \in Slots, action \in Actions : StepAcquire(t, a, action)
       \/ StepCall(t)
       \/ StepExit(t)
       \/ \E a \in Slots : ActionSpace(t, a)
       \/ \E a \in Slots : ObservationSpace(t, a)

Spec == Init /\ [][Next]_vars

\* ------------------------------------------------------------ properties
InRuntime(t) == pc[t] \in {"gil", "called"}
Used == {a \in Slots : adapters[a].used}

\* thread t returns from its reset or step call in this step
Returns(t, op) == pc[t] = "called" /\ call[t].op = op /\ pc'[t] = "idle"

\* C1: in every reachable state, whatever calls were made on this or another
\* adapter and whatever the environment now reports, action_space() and
\* observation_space() give the values new() computed.
C1_CachedSpacesNeverChange ==
    \A a \in Used :
       /\ CachedActionSpace(a) = atNew[a].action_space
       /\ CachedObservationSpace(a) = atNew[a].observation_space

\* an adapter whose environment now reports other spaces than at new(), after
\* a call on it, with action_space() asked
C1_Witness ==
    \E a \in Used, t \in Threads :
       /\ adapters[a].live # adapters[a].made
       /\ adapters[a].hist # "none"
       /\ result[t].kind = "usize"
       /\ result[t].val = atNew[a].action_space

\* C2: at most one thread is inside Python::with_gil at any instant, whether
\* the threads work on the same adapter or on different ones.
C2_OneInRuntime == Cardinality({t \in Threads : InRuntime(t)}) <= 1

\* one thread is inside the runtime while another, idle with an adapter to
\* call, is kept out by the interpreter lock alone
C2_Witness ==
    \E t, u \in Threads :
       /\ t # u
       /\ InRuntime(t)
       /\ call[t].op = "step"
       /\ pc[u] = "idle"
       /\ ops < MaxOps

\* C3: new() never panics.
C3_NewNeverPanics == \A t \in Threads : pc[t] # "panicked"

\* C4: a created adapter caches `n` when the action space has one, else the
\* first element of its shape, and the observation space's shape as it is.
C4_NewCachesSpaces ==
    \A a \in Used :
       LET d == Registry(adapters[a].made)
       IN  /\ adapters[a].action_space =
                IF d.n.kind # "missing" THEN d.n.v ELSE d.ashape.items[1]
           /\ adapters[a].observation_space = d.oshape.items

\* one adapter made from `n`, one from the shape
C4_Witness ==
    \E a, b \in Used :
       /\ adapters[a].made = "discrete4" /\ adapters[a].action_space = 4
       /\ adapters[b].made = "shape6" /\ adapters[b].action_space = 6

\* C5: a successful step returns the action it was given, whatever Python
\* did with its copy.
C5_StepReturnsItsAction ==
    [][\A t \in Threads :
         Returns(t, "step") /\ result'[t].kind = "step"
            => result'[t].action = call[t].arg]_vars

\* a step has returned a Step, for either action value
C5_Witness ==
    \E t, u \in Threads :
       /\ result[t].kind = "step" /\ result[t].action = 1
       /\ result[u].kind = "step" /\ result[u].action = 0

C7_ForwardedWhateverPreceded ==
    \A t \in Threads :
       pc[t] = "called" /\ call[t].op \in {"reset", "step"} => nCalls[t] >= 1

\* a step forwarded to an environment whose last step reported done
C7_Witness ==
    \E t \in Threads :
       /\ pc[t] = "called"
       /\ call[t].op = "step"
       /\ adapters[call[t].adapter].hist = "done"
       /\ nCalls[t] = 1
       /\ ~ret[t].raised

\* C8: a thread that is not inside new, reset or step does not hold the
\* interpreter, and when no thread is inside one the interpreter is free.
C8_GilReleasedOnReturn ==
    /\ \A t \in Threads : ~InRuntime(t) => gil # t
    /\ (\A t \in Threads : ~InRuntime(t)) => gil = NoThread

\* a call has returned an error and another thread has since entered
C8_Witness ==
    \E t, u \in Threads :
       /\ pc[t] = "idle"
       /\ result[t].kind = "ExternalCallError"
       /\ u # t
       /\ gil = u
       /\ InRuntime(u)

\* C9: a reset or step invokes the environment's method at most once, and one
\* whose invocation raised returns ExternalCallError.
C9_NoRetryNoRecovery ==
    [][\A t \in Threads :
         /\ nCalls'[t] <= 1
         /\ (Returns(t, "reset") \/ Returns(t, "step")) /\ ret[t].raised
               => nCalls[t] = 1 /\ result'[t].kind = "ExternalCallError"]_vars

\* a step's invocation has raised, once
C9_Witness ==
    \E t \in Threads :
       /\ pc[t] = "called"
       /\ call[t].op = "step"
       /\ ret[t].raised
       /\ nCalls[t] = 1

\* What the claim says of a tuple: its first three elements extract.
StepExtracts(r) ==
    /\ ~r.raised
    /\ Len(r.tup) >= 3
    /\ r.tup[1].kind \in {"floats", "ints"}
    /\ r.tup[2].kind \in {"float", "int", "bool"}
    /\ r.tup[3].kind = "bool"
ResetExtracts(r) ==
    /\ ~r.raised
    /\ Len(r.tup) >= 1
    /\ r.tup[1].kind \in {"floats", "ints"}

\* C10 as claimed: the Step carries elements 0, 1 and 2 unchanged.
C10_StepCarriesUnchanged ==
    [][\A t \in Threads :
         Returns(t, "step") /\ StepExtracts(ret[t])
            => /\ result'[t].kind = "step"
               /\ result'[t].obs.data = ret[t].tup[1].items
               /\ result'[t].reward = ret[t].tup[2].v
               /\ result'[t].is_done = (ret[t].tup[3].v = 1)]_vars

\* C10 as amended: the Step carries the reward and the done flag unchanged
\* and the observation with each element rounded to f32; elements past index
\* 2 (reset: past index 0) have no part in it; a failed extraction gives
\* ExternalCallError.
C10_StepCarriesFirstThree ==
    [][\A t \in Threads :
         /\ Returns(t, "step") =>
              IF StepExtracts(ret[t])
              THEN /\ result'[t].kind = "step"
                   /\ result'[t].obs.data =
                         [i \in 1..Len(ret[t].tup[1].items) |->
                            F32Cast(ret[t].tup[1].items[i])]
                   /\ result'[t].reward = ret[t].tup[2].v
                   /\ result'[t].is_done = (ret[t].tup[3].v = 1)
              ELSE result'[t].kind = "ExternalCallError"
         /\ Returns(t, "reset") =>
              IF ResetExtracts(ret[t])
              THEN /\ result'[t].kind = "tensor"
                   /\ result'[t].obs.data =
                         [i \in 1..Len(ret[t].tup[1].items) |->
                            F32Cast(ret[t].tup[1].items[i])]
              ELSE result'[t].kind = "ExternalCallError"]_vars

\* a step has returned an observation that f32 could not hold exactly, from a
\* tuple of five elements or of three
C10_Witness ==
    \E t \in Threads :
       /\ result[t].kind = "step"
       /\ result[t].obs.data = <<1, 16777216>>
       /\ result[t].reward = 1
       /\ result[t].is_done

====
